---------------------------- MODULE Spec2Model ----------------------------
(***************************************************************************)
(* String analyzer service: the analyzer (analyzeString), the in-memory    *)
(* content-addressed store (create / getById / getAll / deleteById), the   *)
(* Express route tables of the two server files and their five handlers.   *)
(*                                                                         *)
(* Strings are sequences of Unicode code points (numbers).  A code point   *)
(* above 65535 occupies two UTF-16 code units, so String.length is         *)
(* Utf16Len and not Len.  Only well-formed strings (no lone surrogates)    *)
(* are modelled.                                                           *)
(***************************************************************************)
EXTENDS Integers, Sequences, FiniteSets, TLC

(***************************************************************************)
(* Bounds of the model                                                     *)
(***************************************************************************)
\* the clock (milliseconds) takes the values 0..MaxClock
MaxClock == 2
\* the numbers 0..MaxNum appear in the "longer than" / "shorter than" queries
MaxNum == 3
\* the analyzer is applied to every string of at most MaxLen code points over
\* AnalyzeAlphabet
MaxLen == 3

(***************************************************************************)
(* Text helpers                                                            *)
(***************************************************************************)
Range(s) == {s[i] : i \in DOMAIN s}

RECURSIVE Concat(_)
Concat(ss) == IF ss = <<>> THEN <<>> ELSE Head(ss) \o Concat(Tail(ss))

Reverse(s) == [i \in 1..Len(s) |-> s[Len(s) + 1 - i]]

\* number of UTF-16 code units of one code point
Units(c) == IF c > 65535 THEN 2 ELSE 1

RECURSIVE Utf16Len(_)
Utf16Len(s) == IF s = <<>> THEN 0 ELSE Units(Head(s)) + Utf16Len(Tail(s))

\* String.prototype.includes: lit occurs in s as a contiguous substring
StartsAt(s, i, lit) ==
    /\ i + Len(lit) - 1 <= Len(s)
    /\ \A k \in 1..Len(lit) : s[i + k - 1] = lit[k]

includes(s, lit) == \E i \in 1..(Len(s) + 1) : StartsAt(s, i, lit)

\* ECMAScript WhiteSpace and LineTerminator code points (\s, trim)
IsSpace(c) ==
    \/ c \in {9, 10, 11, 12, 13, 32, 160, 5760, 8232, 8233, 8239, 8287, 12288, 65279}
    \/ c \in 8192..8202

IsDigit(c) == c \in 48..57

\* the character class [a-z0-9]
IsLowerAlnum(c) == c \in 97..122 \/ c \in 48..57

\* String.prototype.toLowerCase, one code point at a time: ASCII and Latin-1
\* capitals, KELVIN SIGN (lowercases to ASCII k) and capital I with dot above
\* (lowercases to i followed by a combining dot)
LowerChar(c) ==
    IF c \in 65..90 THEN <<c + 32>>
    ELSE IF c \in 192..222 /\ c # 215 THEN <<c + 32>>
    ELSE IF c = 8490 THEN <<107>>
    ELSE IF c = 304 THEN <<105, 775>>
    ELSE <<c>>

toLowerCase(s) == Concat([i \in 1..Len(s) |-> LowerChar(s[i])])

\* String.prototype.trim
RECURSIVE TrimLeft(_)
TrimLeft(s) ==
    IF s # <<>> /\ IsSpace(Head(s)) THEN TrimLeft(Tail(s)) ELSE s

trim(s) == Reverse(TrimLeft(Reverse(TrimLeft(s))))

\* String.prototype.split(/\s+/): the pieces between maximal whitespace runs
RECURSIVE SplitWs(_, _)
SplitWs(s, cur) ==
    IF s = <<>> THEN <<cur>>
    ELSE IF IsSpace(Head(s))
         THEN <<cur>> \o SplitWs(TrimLeft(s), <<>>)
         ELSE SplitWs(Tail(s), Append(cur, Head(s)))

splitWs(s) == SplitWs(s, <<>>)

(***************************************************************************)
(* UTF-8 and SHA-256                                                       *)
(***************************************************************************)
Utf8Char(c) ==
    IF c < 128 THEN <<c>>
    ELSE IF c < 2048 THEN <<192 + (c \div 64), 128 + (c % 64)>>
    ELSE IF c < 65536
         THEN <<224 + (c \div 4096), 128 + ((c \div 64) % 64), 128 + (c % 64)>>
         ELSE <<240 + (c \div 262144), 128 + ((c \div 4096) % 64),
                128 + ((c \div 64) % 64), 128 + (c % 64)>>

Utf8(s) == Concat([i \in 1..Len(s) |-> Utf8Char(s[i])])

\* crypto.createHash('sha256').update(value, 'utf8').digest('hex'): the digest
\* is a function of the UTF-8 bytes alone; it is modelled as collision free,
\* so a digest is identified with the bytes it was computed from.
sha256hex(bytes) == [sha256 |-> bytes]

(***************************************************************************)
(* Analyzer                                                                *)
(***************************************************************************)
normalizeForPalindrome_caseSensitive(str) ==
    SelectSeq(str, IsLowerAlnum)

normalizeForPalindrome(str) ==
    SelectSeq(toLowerCase(str), IsLowerAlnum)

analyzeString(value) ==
    LET hash == sha256hex(Utf8(value))
        normalized == normalizeForPalindrome(value)
        \* for (const char of value) iterates code points
        character_frequency_map ==
            [c \in Range(value) |-> Cardinality({i \in DOMAIN value : value[i] = c})]
        trimmed == trim(value)
        word_count == IF Utf16Len(trimmed) > 0 THEN Len(splitWs(trimmed)) ELSE 0
        is_palindrome == normalized = Reverse(normalized)
    IN  [ length |-> Utf16Len(value),
          is_palindrome |-> is_palindrome,
          unique_characters |-> Cardinality(DOMAIN character_frequency_map),
          word_count |-> word_count,
          sha256_hash |-> hash,
          character_frequency_map |-> character_frequency_map ]


(***************************************************************************)
(* Content-addressed store.  dataStore is a JavaScript object keyed by the *)
(* hash; Object.values lists string keys in insertion order, so the store  *)
(* is the sequence of its entries in insertion order, with unique ids.     *)
(***************************************************************************)
\* the JavaScript values undefined and null, as records so that they compare
\* with entries
Undefined == [type |-> "undefined"]
Null == [type |-> "null"]

HasId(store, id) == \E i \in DOMAIN store : store[i].id = id

\* new Date().toISOString() at clock reading ms (milliseconds since the
\* epoch, below one minute): seconds and milliseconds fields of the text
toISOString(ms) == [date |-> "1970-01-01T00:00", s |-> ms \div 1000, ms |-> ms % 1000]

getById(store, id) ==
    IF HasId(store, id)
    THEN store[CHOOSE i \in DOMAIN store : store[i].id = id]
    ELSE Undefined

create_overwrite(store, id, data, now) ==
    LET fullEntry == [ id |-> id, value |-> data.value,
                       properties |-> data.properties,
                       created_at |-> toISOString(now) ]
    IN  [ store |-> Append(SelectSeq(store, LAMBDA e : e.id # id), fullEntry),
          result |-> fullEntry ]

create_touch(store, id, data, now) ==
    LET fullEntry == [ id |-> id, value |-> data.value,
                       properties |-> data.properties,
                       created_at |-> toISOString(now) ]
    IN  IF getById(store, id) # Undefined
        THEN [ store |-> [i \in DOMAIN store |->
                            IF store[i].id = id THEN fullEntry ELSE store[i]],
               result |-> Null ]
        ELSE [ store |-> Append(store, fullEntry), result |-> fullEntry ]

create_stale(store, id, data, now) ==
    LET fullEntry == [ id |-> id, value |-> data.value,
                       properties |-> data.properties,
                       created_at |-> toISOString(0) ]
    IN  IF getById(store, id) # Undefined
        THEN [ store |-> store, result |-> Null ]
        ELSE [ store |-> Append(store, fullEntry), result |-> fullEntry ]

create(store, id, data, now) ==
    LET fullEntry == [ id |-> id, value |-> data.value,
                       properties |-> data.properties,
                       created_at |-> toISOString(now) ]
    IN  IF getById(store, id) # Undefined
        THEN [ store |-> store, result |-> Null ]
        ELSE [ store |-> Append(store, fullEntry), result |-> fullEntry ]

getAll(store) == store

deleteById_keep(store, id) ==
    IF getById(store, id) # Undefined
    THEN [ store |-> store, result |-> TRUE ]
    ELSE [ store |-> store, result |-> FALSE ]

deleteById(store, id) ==
    IF getById(store, id) # Undefined
    THEN [ store |-> SelectSeq(store, LAMBDA e : e.id # id), result |-> TRUE ]
    ELSE [ store |-> store, result |-> FALSE ]

(***************************************************************************)
(* URI component coding of a path segment (the client percent-encodes the  *)
(* value, Express decodes req.params with decodeURIComponent)              *)
(***************************************************************************)
\* A-Z a-z 0-9 - _ . ! ~ * ' ( )
IsUnreserved(c) ==
    \/ c \in 65..90 \/ c \in 97..122 \/ c \in 48..57
    \/ c \in {45, 95, 46, 33, 126, 42, 39, 40, 41}

HexChar(n) == IF n < 10 THEN 48 + n ELSE 55 + n

IsHex(c) == c \in 48..57 \/ c \in 65..70 \/ c \in 97..102

HexVal(c) == IF c \in 48..57 THEN c - 48
             ELSE IF c \in 65..70 THEN c - 55 ELSE c - 87

PctEncode(b) == <<37, HexChar(b \div 16), HexChar(b % 16)>>

encodeURIComponent(s) ==
    Concat([i \in 1..Len(s) |->
              IF IsUnreserved(s[i]) THEN <<s[i]>>
              ELSE LET bs == Utf8Char(s[i])
                   IN  Concat([k \in 1..Len(bs) |-> PctEncode(bs[k])])])

\* the bytes a raw segment stands for; -1 marks a malformed escape
RECURSIVE PctBytes(_)
PctBytes(raw) ==
    IF raw = <<>> THEN <<>>
    ELSE IF Head(raw) = 37
         THEN IF Len(raw) >= 3 /\ IsHex(raw[2]) /\ IsHex(raw[3])
              THEN <<16 * HexVal(raw[2]) + HexVal(raw[3])>>
                       \o PctBytes(SubSeq(raw, 4, Len(raw)))
              ELSE <<-1>>
         ELSE Utf8Char(Head(raw)) \o PctBytes(Tail(raw))

IsCont(bs, k) == k <= Len(bs) /\ bs[k] \in 128..191

\* UTF-8 decoding; -1 marks an invalid sequence
RECURSIVE Utf8Decode(_)
Utf8Decode(bs) ==
    IF bs = <<>> THEN <<>>
    ELSE LET b == Head(bs)
         IN  IF b \in 0..127 THEN <<b>> \o Utf8Decode(Tail(bs))
             ELSE IF b \in 194..223 /\ IsCont(bs, 2)
                  THEN <<(b - 192) * 64 + (bs[2] - 128)>>
                           \o Utf8Decode(SubSeq(bs, 3, Len(bs)))
             ELSE IF b \in 224..239 /\ IsCont(bs, 2) /\ IsCont(bs, 3)
                  THEN LET c == (b - 224) * 4096 + (bs[2] - 128) * 64 + (bs[3] - 128)
                       IN  IF c < 2048 \/ c \in 55296..57343 THEN <<-1>>
                           ELSE <<c>> \o Utf8Decode(SubSeq(bs, 4, Len(bs)))
             ELSE IF b \in 240..244 /\ IsCont(bs, 2) /\ IsCont(bs, 3) /\ IsCont(bs, 4)
                  THEN LET c == (b - 240) * 262144 + (bs[2] - 128) * 4096
                                  + (bs[3] - 128) * 64 + (bs[4] - 128)
                       IN  IF c < 65536 \/ c > 1114111 THEN <<-1>>
                           ELSE <<c>> \o Utf8Decode(SubSeq(bs, 5, Len(bs)))
             ELSE <<-1>>

\* decodeURIComponent: [ok, value]; ok is FALSE where it throws URIError
decodeURIComponent(raw) ==
    LET bs == PctBytes(raw)
        cs == IF -1 \in Range(bs) THEN <<-1>> ELSE Utf8Decode(bs)
    IN  IF -1 \in Range(cs) THEN [ok |-> FALSE, value |-> <<>>]
        ELSE [ok |-> TRUE, value |-> cs]


(***************************************************************************)
(* JavaScript values of a request: tagged so that values of different      *)
(* types compare                                                           *)
(***************************************************************************)
Str(s) == [type |-> "string", s |-> s]
Num(n) == [type |-> "number", n |-> n]
Bool(b) == [type |-> "boolean", b |-> b]
NaN == [type |-> "NaN"]

\* parseInt(str, radix): leading whitespace, a sign, then the longest prefix
\* of digits; without a radix (radix 0) a 0x prefix selects base 16
RECURSIVE DigitPrefix(_, _)
DigitPrefix(s, R) ==
    IF s # <<>> /\ IsHex(Head(s)) /\ HexVal(Head(s)) < R
    THEN <<HexVal(Head(s))>> \o DigitPrefix(Tail(s), R)
    ELSE <<>>

RECURSIVE DigitsValue(_, _)
DigitsValue(ds, R) ==
    IF ds = <<>> THEN 0
    ELSE DigitsValue(SubSeq(ds, 1, Len(ds) - 1), R) * R + ds[Len(ds)]

parseInt(str, radix) ==
    LET t == TrimLeft(str)
        signed == t # <<>> /\ Head(t) \in {43, 45}
        neg == t # <<>> /\ Head(t) = 45
        u == IF signed THEN Tail(t) ELSE t
        hex == radix = 0 /\ Len(u) >= 2 /\ u[1] = 48 /\ u[2] \in {120, 88}
        R == IF hex THEN 16 ELSE 10
        ds == DigitPrefix(IF hex THEN SubSeq(u, 3, Len(u)) ELSE u, R)
    IN  IF ds = <<>> THEN NaN
        ELSE Num(IF neg THEN 0 - DigitsValue(ds, R) ELSE DigitsValue(ds, R))

(***************************************************************************)
(* Literals of the source                                                  *)
(***************************************************************************)
L_strings == <<115, 116, 114, 105, 110, 103, 115>>  \* "strings"
L_fbnl == <<102, 105, 108, 116, 101, 114, 45, 98, 121, 45, 110, 97, 116, 117, 114, 97, 108, 45, 108, 97, 110, 103, 117, 97, 103, 101>>  \* "filter-by-natural-language"
L_palindrome == <<112, 97, 108, 105, 110, 100, 114, 111, 109, 101>>  \* "palindrome"
L_palindromic == <<112, 97, 108, 105, 110, 100, 114, 111, 109, 105, 99>>  \* "palindromic"
L_single_word == <<115, 105, 110, 103, 108, 101, 32, 119, 111, 114, 100>>  \* "single word"
L_one_word == <<111, 110, 101, 32, 119, 111, 114, 100>>  \* "one word"
L_longer_than == <<108, 111, 110, 103, 101, 114, 32, 116, 104, 97, 110>>  \* "longer than"
L_shorter_than == <<115, 104, 111, 114, 116, 101, 114, 32, 116, 104, 97, 110>>  \* "shorter than"
L_contains == <<99, 111, 110, 116, 97, 105, 110, 115>>  \* "contains"
L_letter == <<108, 101, 116, 116, 101, 114>>  \* "letter"
L_first_vowel == <<102, 105, 114, 115, 116, 32, 118, 111, 119, 101, 108>>  \* "first vowel"
L_true == <<116, 114, 117, 101>>  \* "true"
L_false == <<102, 97, 108, 115, 101>>  \* "false"

(***************************************************************************)
(* Routing.  A request is [method, path, query, body]; path is the raw     *)
(* (still percent-encoded) path split at "/".  Express tries the routes in *)
(* registration order; matching is case insensitive and one trailing "/"   *)
(* is allowed (the router's defaults).                                     *)
(***************************************************************************)
Lit(s) == [kind |-> "literal", s |-> s]
Param(name) == [kind |-> "param", name |-> name]

\* the route table app.post / app.get / app.delete build, in source order
Routes_part002 ==
    << [method |-> "POST", path |-> <<Lit(L_strings)>>, handler |-> "postStrings"],
       [method |-> "GET", path |-> <<Lit(L_strings), Lit(L_fbnl)>>,
        handler |-> "filterByNaturalLanguage"],
       [method |-> "GET", path |-> <<Lit(L_strings), Param("stringValue")>>,
        handler |-> "getString"],
       [method |-> "GET", path |-> <<Lit(L_strings)>>, handler |-> "getStrings"],
       [method |-> "DELETE", path |-> <<Lit(L_strings), Param("stringValue")>>,
        handler |-> "deleteString"] >>

Routes_server ==
    << [method |-> "POST", path |-> <<Lit(L_strings)>>, handler |-> "postStrings"],
       [method |-> "GET", path |-> <<Lit(L_strings), Param("stringValue")>>,
        handler |-> "getString"],
       [method |-> "GET", path |-> <<Lit(L_strings)>>, handler |-> "getStrings"],
       [method |-> "GET", path |-> <<Lit(L_strings), Lit(L_fbnl)>>,
        handler |-> "filterByNaturalLanguage"],
       [method |-> "DELETE", path |-> <<Lit(L_strings), Param("stringValue")>>,
        handler |-> "deleteString"] >>

RouteTable(a) == IF a = "server.js" THEN Routes_server ELSE Routes_part002

\* the radix the list handler of each file hands to parseInt (0: none given)
Radix(a) == IF a = "server.js" THEN 0 ELSE 10

AsciiFold(c) == IF c \in 65..90 THEN c + 32 ELSE c

FoldEq(s, t) ==
    /\ Len(s) = Len(t)
    /\ \A i \in 1..Len(s) : AsciiFold(s[i]) = AsciiFold(t[i])

\* strict routing is off: one trailing empty segment is ignored
StripSlash(path) ==
    IF Len(path) >= 2 /\ path[Len(path)] = <<>>
    THEN SubSeq(path, 1, Len(path) - 1) ELSE path

SegMatches(pat, seg) ==
    IF pat.kind = "literal" THEN FoldEq(pat.s, seg) ELSE seg # <<>>

RouteMatches(route, method, path) ==
    LET p == StripSlash(path)
    IN  /\ route.method = method
        /\ Len(p) = Len(route.path)
        /\ \A i \in 1..Len(p) : SegMatches(route.path[i], p[i])

\* index of the first matching route, 0 when none matches
Dispatch(routes, method, path) ==
    LET hits == {i \in DOMAIN routes : RouteMatches(routes[i], method, path)}
    IN  IF hits = {} THEN 0 ELSE CHOOSE i \in hits : \A j \in hits : i <= j

(***************************************************************************)
(* Handlers.  Each yields [store, status, body].                           *)
(***************************************************************************)
sendError(store, status, message) ==
    [store |-> store, status |-> status, body |-> [error |-> message]]

\* app.post('/strings')
postStrings(store, req, now) ==
    LET value == req.body.value
    IN  IF value = Undefined
        THEN sendError(store, 400, "Missing \"value\" field in request body")
        ELSE IF value.type # "string"
        THEN sendError(store, 422, "Invalid data type for \"value\" (must be string)")
        ELSE LET properties == analyzeString(value.s)
                 id == properties.sha256_hash
                 r == create(store, id, [value |-> value.s, properties |-> properties], now)
             IN  IF r.result = Null
                 THEN sendError(r.store, 409, "String already exists in the system")
                 ELSE [store |-> r.store, status |-> 201, body |-> r.result]

\* app.get('/strings/:stringValue')
getString(store, stringValue) ==
    LET properties == analyzeString(stringValue)
        id == properties.sha256_hash
        entry == getById(store, id)
    IN  IF entry = Undefined
        THEN sendError(store, 404, "String does not exist in the system")
        ELSE [store |-> store, status |-> 200, body |-> entry]

\* app.delete('/strings/:stringValue')
deleteString(store, stringValue) ==
    LET properties == analyzeString(stringValue)
        id == properties.sha256_hash
        r == deleteById(store, id)
    IN  IF ~r.result
        THEN sendError(r.store, 404, "String does not exist in the system")
        ELSE [store |-> r.store, status |-> 204, body |-> [empty |-> TRUE]]

NoFilters ==
    [ is_palindrome |-> Undefined, min_length |-> Undefined, max_length |-> Undefined,
      word_count |-> Undefined, contains_character |-> Undefined ]


\* property lookup obj[key] on a character_frequency_map: its keys are the
\* single code points of the value
HasKey(map, key) == Len(key) = 1 /\ key[1] \in DOMAIN map

Throw(message) == [thrown |-> TRUE, message |-> message, filtersApplied |-> NoFilters]

\* the try block of app.get('/strings'): the first failing field throws
validateQuery(query, radix) ==
    LET pal == query.is_palindrome
        min == IF query.min_length = Undefined THEN NaN
               ELSE parseInt(query.min_length.s, radix)
        max == IF query.max_length = Undefined THEN NaN
               ELSE parseInt(query.max_length.s, radix)
        count == IF query.word_count = Undefined THEN NaN
                 ELSE parseInt(query.word_count.s, radix)
        cc == query.contains_character
    IN  IF pal # Undefined /\ pal.s # L_true /\ pal.s # L_false
        THEN Throw("is_palindrome must be \"true\" or \"false\"")
        ELSE IF query.min_length # Undefined /\ (min = NaN \/ min.n < 0)
        THEN Throw("min_length must be a positive integer")
        ELSE IF query.max_length # Undefined /\ (max = NaN \/ max.n < 0)
        THEN Throw("max_length must be a positive integer")
        ELSE IF query.word_count # Undefined /\ (count = NaN \/ count.n < 0)
        THEN Throw("word_count must be a positive integer")
        ELSE IF cc # Undefined /\ Utf16Len(cc.s) # 1
        THEN Throw("contains_character must be a single character string")
        ELSE [ thrown |-> FALSE, message |-> "",
               filtersApplied |->
                 [ is_palindrome |-> IF pal = Undefined THEN Undefined
                                     ELSE Bool(pal.s = L_true),
                   min_length |-> IF query.min_length = Undefined THEN Undefined ELSE min,
                   max_length |-> IF query.max_length = Undefined THEN Undefined ELSE max,
                   word_count |-> IF query.word_count = Undefined THEN Undefined ELSE count,
                   contains_character |-> cc ] ]

entryPasses_noMax(entry, f) ==
    LET p == entry.properties
    IN  IF f.is_palindrome # Undefined /\ p.is_palindrome # f.is_palindrome.b THEN FALSE
        ELSE IF f.min_length # Undefined /\ p.length < f.min_length.n THEN FALSE
        ELSE IF f.word_count # Undefined /\ p.word_count # f.word_count.n THEN FALSE
        ELSE IF f.contains_character # Undefined
                /\ ~HasKey(p.character_frequency_map, f.contains_character.s) THEN FALSE
        ELSE TRUE

\* the filter callback of app.get('/strings')
entryPasses(entry, f) ==
    LET p == entry.properties
    IN  IF f.is_palindrome # Undefined /\ p.is_palindrome # f.is_palindrome.b THEN FALSE
        ELSE IF f.min_length # Undefined /\ p.length < f.min_length.n THEN FALSE
        ELSE IF f.max_length # Undefined /\ p.length > f.max_length.n THEN FALSE
        ELSE IF f.word_count # Undefined /\ p.word_count # f.word_count.n THEN FALSE
        ELSE IF f.contains_character # Undefined
                /\ ~HasKey(p.character_frequency_map, f.contains_character.s) THEN FALSE
        ELSE TRUE

\* app.get('/strings')
getStrings(store, query, radix) ==
    LET allStrings == getAll(store)
        v == validateQuery(query, radix)
        filteredData == SelectSeq(allStrings, LAMBDA e : entryPasses(e, v.filtersApplied))
    IN  IF v.thrown
        THEN [ store |-> store, status |-> 400,
               body |-> [error |-> <<"Invalid query parameter: ", v.message>>] ]
        ELSE [ store |-> store, status |-> 200,
               body |-> [ data |-> filteredData, count |-> Len(filteredData),
                          filters_applied |-> v.filtersApplied ] ]

(***************************************************************************)
(* Natural-language filter                                                 *)
(***************************************************************************)
RECURSIVE SkipWs(_, _)
SkipWs(q, j) == IF j <= Len(q) /\ IsSpace(q[j]) THEN SkipWs(q, j + 1) ELSE j

RECURSIVE DigitRun(_, _)
DigitRun(q, k) ==
    IF k <= Len(q) /\ IsDigit(q[k]) THEN <<q[k]>> \o DigitRun(q, k + 1) ELSE <<>>

\* String.prototype.match of /(?:lit1|lit2)\s+(C...)/ : the index of the first
\* captured character of the leftmost match, 0 when nothing matches.  The
\* whitespace run is followed by a character of class C, which is no
\* whitespace, so the run is taken whole.
InClass(class, c) == IF class = "\\d" THEN IsDigit(c) ELSE IsLowerAlnum(c)

CaptureAt(q, i, lits, class) ==
    {k \in 1..Len(q) : \E lit \in lits :
        /\ StartsAt(q, i, lit)
        /\ k = SkipWs(q, i + Len(lit))
        /\ k > i + Len(lit)
        /\ InClass(class, q[k])}

RegexCapture(q, lits, class) ==
    LET starts == {i \in 1..Len(q) : CaptureAt(q, i, lits, class) # {}}
    IN  IF starts = {} THEN 0
        ELSE LET i == CHOOSE x \in starts : \A y \in starts : x <= y
             IN  CHOOSE k \in CaptureAt(q, i, lits, class) : TRUE

\* JavaScript truthiness of an optional number
Truthy(x) == x # Undefined /\ x.n # 0

\* parsedFilters.min_length && parsedFilters.max_length && min > max
conflicting(f) ==
    Truthy(f.min_length) /\ Truthy(f.max_length) /\ f.min_length.n > f.max_length.n

\* the rules of app.get('/strings/filter-by-natural-language'), in order
parseNaturalLanguage(query) ==
    LET lowerQuery == toLowerCase(query)
        longerMatch == RegexCapture(lowerQuery, {L_longer_than}, "\\d")
        shorterMatch == RegexCapture(lowerQuery, {L_shorter_than}, "\\d")
        containsMatch == RegexCapture(lowerQuery, {L_contains, L_letter}, "[a-z0-9]")
    IN  [ is_palindrome |->
            IF includes(lowerQuery, L_palindrome) \/ includes(lowerQuery, L_palindromic)
            THEN Bool(TRUE) ELSE Undefined,
          word_count |->
            IF includes(lowerQuery, L_single_word) \/ includes(lowerQuery, L_one_word)
            THEN Num(1) ELSE Undefined,
          min_length |->
            IF longerMatch # 0
            THEN Num(parseInt(DigitRun(lowerQuery, longerMatch), 10).n + 1)
            ELSE Undefined,
          max_length |->
            IF shorterMatch # 0
            THEN Num(parseInt(DigitRun(lowerQuery, shorterMatch), 10).n - 1)
            ELSE Undefined,
          contains_character |->
            IF includes(lowerQuery, L_first_vowel) THEN Str(<<97>>)
            ELSE IF containsMatch # 0 THEN Str(<<lowerQuery[containsMatch]>>)
            ELSE Undefined ]

\* the filter callback of the natural-language handler
entryPassesParsed(entry, f) ==
    LET p == entry.properties
    IN  IF f.is_palindrome # Undefined /\ p.is_palindrome # f.is_palindrome.b THEN FALSE
        ELSE IF f.min_length # Undefined /\ p.length < f.min_length.n THEN FALSE
        ELSE IF f.max_length # Undefined /\ p.length > f.max_length.n THEN FALSE
        ELSE IF f.word_count # Undefined /\ p.word_count # f.word_count.n THEN FALSE
        ELSE IF f.contains_character # Undefined
                /\ ~HasKey(p.character_frequency_map, f.contains_character.s) THEN FALSE
        ELSE TRUE

\* app.get('/strings/filter-by-natural-language')
filterByNaturalLanguage(store, query) ==
    IF query = Undefined \/ query.s = <<>>
    THEN sendError(store, 400, "Missing \"query\" parameter for natural language filtering")
    ELSE LET parsedFilters == parseNaturalLanguage(query.s)
             allStrings == getAll(store)
             filteredData ==
                 SelectSeq(allStrings, LAMBDA e : entryPassesParsed(e, parsedFilters))
         IN  IF conflicting(parsedFilters)
             THEN sendError(store, 422,
                            "Query parsed but resulted in conflicting length filters")
             ELSE [ store |-> store, status |-> 200,
                    body |-> [ data |-> filteredData, count |-> Len(filteredData),
                               interpreted_query |->
                                 [ original |-> query.s,
                                   parsed_filters |-> parsedFilters ] ] ]

(***************************************************************************)
(* The application: dispatch of one request to its handler                 *)
(***************************************************************************)
Tag(r, h) == [store |-> r.store, status |-> r.status, body |-> r.body, handler |-> h]

Respond(a, store, req, now) ==
    LET routes == RouteTable(a)
        idx == Dispatch(routes, req.method, req.path)
        p == StripSlash(req.path)
    IN  IF idx = 0
        THEN Tag(sendError(store, 404, "Cannot " \o req.method), "none")
        ELSE LET h == routes[idx].handler
             IN  CASE h = "postStrings" -> Tag(postStrings(store, req, now), h)
                   [] h = "getStrings" -> Tag(getStrings(store, req.query, Radix(a)), h)
                   [] h = "filterByNaturalLanguage" ->
                        Tag(filterByNaturalLanguage(store, req.query.query), h)
                   [] OTHER ->
                        LET d == decodeURIComponent(p[2])
                        IN  IF ~d.ok
                            THEN Tag(sendError(store, 400, "Failed to decode param"), h)
                            ELSE IF h = "getString"
                                 THEN Tag(getString(store, d.value), h)
                                 ELSE Tag(deleteString(store, d.value), h)


(***************************************************************************)
(* Clients and their requests                                              *)
(***************************************************************************)
Empty == <<>>
Madam == <<77, 97, 100, 97, 109>>  \* "Madam"
Hello == <<104, 101, 108, 108, 111>>  \* "hello"
AB == <<97, 32, 98>>  \* "a b"
Zz == <<122, 122>>  \* "zz"
BadEscape == <<37, 69, 48>>  \* "%E0"

\* every string value some client creates, fetches or deletes
AllValues == {Empty, Madam, Hello, AB, Zz, L_fbnl}

NoQuery ==
    [ is_palindrome |-> Undefined, min_length |-> Undefined, max_length |-> Undefined,
      word_count |-> Undefined, contains_character |-> Undefined, query |-> Undefined ]

NoBody == [value |-> Undefined]

NoReq == [method |-> "none"]

\* "about" is the value the client means; the server never reads it
Post(value) ==
    [ method |-> "POST", path |-> <<L_strings>>, query |-> NoQuery,
      body |-> [value |-> value], about |-> value ]

GetRaw(seg) ==
    [ method |-> "GET", path |-> <<L_strings, seg>>, query |-> NoQuery,
      body |-> NoBody, about |-> Undefined ]

Get(v) ==
    [ method |-> "GET", path |-> <<L_strings, encodeURIComponent(v)>>, query |-> NoQuery,
      body |-> NoBody, about |-> Str(v) ]

Delete(v) ==
    [ method |-> "DELETE", path |-> <<L_strings, encodeURIComponent(v)>>,
      query |-> NoQuery, body |-> NoBody, about |-> Str(v) ]

List(q) ==
    [ method |-> "GET", path |-> <<L_strings>>, query |-> q,
      body |-> NoBody, about |-> Undefined ]

NL(text) ==
    [ method |-> "GET", path |-> <<L_strings, L_fbnl>>,
      query |-> [NoQuery EXCEPT !.query = text],
      body |-> NoBody, about |-> Undefined ]

RECURSIVE IntToText(_)
IntToText(n) ==
    IF n < 10 THEN <<48 + n>> ELSE IntToText(n \div 10) \o <<48 + (n % 10)>>

Q_pal3 == <<112, 97, 108, 105, 110, 100, 114, 111, 109, 105, 99, 32, 115, 116, 114, 105, 110, 103, 115, 32, 108, 111, 110, 103, 101, 114, 32, 116, 104, 97, 110, 32, 51>>  \* "palindromic strings longer than 3"
Q_cz == <<99, 111, 110, 116, 97, 105, 110, 115, 32, 122>>  \* "contains z"
Q_10_5 == <<108, 111, 110, 103, 101, 114, 32, 116, 104, 97, 110, 32, 49, 48, 32, 97, 110, 100, 32, 115, 104, 111, 114, 116, 101, 114, 32, 116, 104, 97, 110, 32, 53>>  \* "longer than 10 and shorter than 5"
Q_fv == <<102, 105, 114, 115, 116, 32, 118, 111, 119, 101, 108>>  \* "first vowel"
Q_sw == <<115, 105, 110, 103, 108, 101, 32, 119, 111, 114, 100>>  \* "single word"
T_lt == <<108, 111, 110, 103, 101, 114, 32, 116, 104, 97, 110, 32>>  \* "longer than "
T_st == <<32, 115, 104, 111, 114, 116, 101, 114, 32, 116, 104, 97, 110, 32>>  \* " shorter than "
T_cl == <<99, 111, 110, 116, 97, 105, 110, 115, 32, 108, 101, 116, 116, 101, 114, 32>>  \* "contains letter "

\* "longer than N shorter than M"
RangeQuery(N, M) == T_lt \o IntToText(N) \o T_st \o IntToText(M)

\* "contains letter c"
LetterQuery(c) == T_cl \o <<c>>

\* z, a, l, e, 7, Z
LetterChars == {122, 97, 108, 101, 55, 90}

P_4 == <<52>>  \* "4"
P_1 == <<49>>  \* "1"
P_5abc == <<53, 97, 98, 99>>  \* "5abc"
P_3p7 == <<51, 46, 55>>  \* "3.7"
P_m1 == <<45, 49>>  \* "-1"
P_abc == <<97, 98, 99>>  \* "abc"
P_yes == <<121, 101, 115>>  \* "yes"
P_0x4 == <<48, 120, 52>>  \* "0x4"
P_a == <<97>>  \* "a"

PalOptions == {Undefined, Str(L_true), Str(L_false), Str(P_yes)}
MinOptions == {Undefined, Str(P_4), Str(P_5abc), Str(P_m1), Str(P_abc), Str(P_0x4)}
MaxOptions == {Undefined, Str(P_4), Str(P_3p7), Str(Empty)}
CountOptions == {Undefined, Str(P_1), Str(P_abc)}
CharOptions == {Undefined, Str(P_a), Str(Zz), Str(Empty), Str(<<128512>>)}

\* the list queries: every combination of the valid values, and every single
\* parameter with each of its values
ListQueries ==
    [ is_palindrome : {Undefined, Str(L_true)}, min_length : {Undefined, Str(P_4)},
      max_length : {Undefined, Str(P_4)}, word_count : {Undefined, Str(P_1)},
      contains_character : {Undefined, Str(P_a)}, query : {Undefined} ]
      \cup {[NoQuery EXCEPT !.is_palindrome = x] : x \in PalOptions}
      \cup {[NoQuery EXCEPT !.min_length = x] : x \in MinOptions}
      \cup {[NoQuery EXCEPT !.max_length = x] : x \in MaxOptions}
      \cup {[NoQuery EXCEPT !.word_count = x] : x \in CountOptions}
      \cup {[NoQuery EXCEPT !.contains_character = x] : x \in CharOptions}

Requests(w) ==
    CASE w = "lifecycle" ->
           {Post(Str(v)) : v \in {Empty, Madam, L_fbnl}}
             \cup {Get(v) : v \in {Empty, Madam, L_fbnl}}
             \cup {Delete(v) : v \in {Empty, Madam, L_fbnl}}
             \cup {Post(Undefined), Post(Num(123)), List(NoQuery),
                   NL(Str(Q_pal3)), GetRaw(BadEscape)}
      [] w = "race" ->
           {Post(Str(v)) : v \in {Madam, Hello}}
             \cup {Delete(v) : v \in {Madam, Hello}}
             \cup {Get(Madam)}
      [] w = "filter" ->
           {Post(Str(v)) : v \in {Madam, Hello, AB}}
             \cup {Delete(Hello)}
             \cup {List(q) : q \in ListQueries}
      [] w = "nl" ->
           {Post(Str(v)) : v \in {Madam, Zz}}
             \cup {NL(Str(q)) : q \in {Q_pal3, Q_cz, Q_10_5, Q_fv, Q_sw}}
             \cup {NL(Str(RangeQuery(N, M))) : N \in 0..MaxNum, M \in 0..MaxNum}
             \cup {NL(Str(LetterQuery(c))) : c \in LetterChars}
             \cup {NL(Undefined), NL(Str(Empty))}

Clients(w) == IF w = "race" THEN {"c1", "c2"} ELSE {"c1"}

Panama == <<65, 32, 109, 97, 110, 44, 32, 97, 32, 112, 108, 97, 110, 44, 32, 97, 32, 99, 97, 110, 97, 108, 58, 32, 80, 97, 110, 97, 109, 97>>  \* "A man, a plan, a canal: Panama"

\* A, a, b, comma, space, KELVIN SIGN, U+1F600 (two UTF-16 code units)
AnalyzeAlphabet == {65, 97, 98, 44, 32, 8490, 128512}

\* the values analyzeString is called with
AnalyzeInputs ==
    UNION {[1..n -> AnalyzeAlphabet] : n \in 0..MaxLen}
      \cup {Madam, Hello, Panama}

(***************************************************************************)
(* State                                                                   *)
(***************************************************************************)
VARIABLES
    app,        \* which server file runs: "part_002" or "server.js"
    dataStore,  \* the store's entries, in insertion order
    clock,      \* the reading of Date, in milliseconds
    pending,    \* per client, its request in flight (NoReq: none)
    last,       \* the response to the request handled last, until its client
                \* sends again
    live,       \* per value, the entry the last 201 for it returned, until a 204
    tomb,       \* per value, the entry the last 204 for it removed
    workload    \* the requests the clients draw from

vars == <<app, dataStore, clock, pending, last, live, tomb, workload>>

NoLast ==
    [ client |-> "none", req |-> NoReq, handler |-> "none", status |-> 0,
      body |-> Undefined, before |-> <<>>, at |-> 0, racing |-> {},
      raced |-> FALSE, firstStatus |-> 0, firstAbsent |-> FALSE ]

InitWith(w) ==
    /\ app \in {"part_002", "server.js"}
    /\ dataStore = <<>>
    /\ clock = 0
    /\ pending = [c \in Clients(w) |-> NoReq]
    /\ last = NoLast
    /\ live = [v \in AllValues |-> Undefined]
    /\ tomb = [v \in AllValues |-> Undefined]
    /\ workload = w

Init == InitWith("lifecycle")
InitRace == InitWith("race")
InitFilter == InitWith("filter")
InitNL == InitWith("nl")

\* a client with no request in flight sends one; it has read its last response
Send(c) ==
    /\ pending[c] = NoReq
    /\ \E r \in Requests(workload) : pending' = [pending EXCEPT ![c] = r]
    /\ last' = IF last.client = c THEN NoLast ELSE last
    /\ UNCHANGED <<app, dataStore, clock, live, tomb, workload>>

\* the server runs the handler of c's request; a handler is synchronous, so
\* it runs to completion before any other request is looked at.  raced: the
\* request was in flight, identical, while the request handled just before
\* was handled; firstAbsent: and that one found no entry for the value.
HandleWith(c, req, r, raced, firstAbsent, v) ==
    /\ dataStore' = r.store
    /\ last' = [ client |-> c, req |-> req, handler |-> r.handler,
                 status |-> r.status, body |-> r.body,
                 before |-> dataStore, at |-> clock,
                 racing |-> {d \in DOMAIN pending \ {c} : pending[d] = req},
                 raced |-> raced,
                 firstStatus |-> IF raced THEN last.status ELSE 0,
                 firstAbsent |-> firstAbsent ]
    /\ live' = IF r.status = 201 THEN [live EXCEPT ![v] = r.body]
               ELSE IF r.status = 204 THEN [live EXCEPT ![v] = Undefined]
               ELSE live
    /\ tomb' = IF r.status = 204 THEN [tomb EXCEPT ![v] = live[v]] ELSE tomb

Handle(c) ==
    /\ pending[c] # NoReq
    /\ HandleWith(c, pending[c], Respond(app, dataStore, pending[c], clock),
                  c \in last.racing /\ last.req = pending[c],
                  /\ c \in last.racing /\ last.req = pending[c]
                  /\ pending[c].about.type = "string"
                  /\ ~HasId(last.before, sha256hex(Utf8(pending[c].about.s))),
                  pending[c].about.s)
    /\ pending' = [pending EXCEPT ![c] = NoReq]
    /\ UNCHANGED <<app, clock, workload>>

\* time passes
Tick ==
    /\ clock < MaxClock
    /\ clock' = clock + 1
    /\ UNCHANGED <<app, dataStore, pending, last, live, tomb, workload>>

Next ==
    \/ \E c \in DOMAIN pending : Send(c)
    \/ \E c \in DOMAIN pending : Handle(c)
    \/ Tick

Spec == Init /\ [][Next]_vars
SpecRace == InitRace /\ [][Next]_vars
SpecFilter == InitFilter /\ [][Next]_vars
SpecNL == InitNL /\ [][Next]_vars

\* the analyzer alone: a client holds a value to analyze
InitAnalyze ==
    /\ app \in {"part_002", "server.js"}
    /\ dataStore = <<>>
    /\ clock = 0
    /\ \E s \in AnalyzeInputs :
         /\ pending = [c \in Clients("analyze") |-> Post(Str(s))]
         /\ live = [v \in {s} |-> Undefined]
         /\ tomb = [v \in {s} |-> Undefined]
    /\ last = NoLast
    /\ workload = "analyze"

\* analyzeString(value) is called with the client's value; it reads and
\* writes nothing but its argument and its result
Analyze(c) ==
    /\ pending[c] # NoReq
    /\ last' = [NoLast EXCEPT !.client = c, !.req = pending[c],
                              !.handler = "analyzeString",
                              !.body = [ value |-> pending[c].about.s,
                                         properties |-> analyzeString(pending[c].about.s) ]]
    /\ pending' = [pending EXCEPT ![c] = NoReq]
    /\ UNCHANGED <<app, dataStore, clock, live, tomb, workload>>

NextAnalyze == \E c \in DOMAIN pending : Analyze(c)

SpecAnalyze == InitAnalyze /\ [][NextAnalyze]_vars


(***************************************************************************)
(* Properties                                                              *)
(***************************************************************************)
IdOf(v) == sha256hex(Utf8(v))

\* C1: a POST of a string value whose hash is stored answers 409 and leaves
\* the store exactly as it was; a POST of a value whose hash is not stored
\* answers 201 and appends exactly one entry, under that hash
C1_CreateOnce ==
    \A v \in AllValues :
        last.req = Post(Str(v)) =>
            IF HasId(last.before, IdOf(v))
            THEN last.status = 409 /\ dataStore = last.before
            ELSE /\ last.status = 201
                 /\ Len(dataStore) = Len(last.before) + 1
                 /\ SubSeq(dataStore, 1, Len(last.before)) = last.before
                 /\ dataStore[Len(dataStore)] = last.body
                 /\ last.body.id = IdOf(v)
                 /\ last.body.value = v
                 /\ Cardinality({i \in DOMAIN dataStore : dataStore[i].id = IdOf(v)}) = 1

C1_Witness ==
    /\ last.req = Post(Str(Madam))
    /\ last.status = 409
    /\ Len(dataStore) = 2

\* the lifecycle of value v as the client sees it: live[v] is the entry its
\* last 201 returned and no 204 has followed
LifecycleOf(v) ==
    /\ last.req = Get(v) /\ live[v] # Undefined
           => last.status = 200 /\ last.body = live[v]
    /\ last.req = Get(v) /\ live[v] = Undefined => last.status = 404
    /\ last.req = Delete(v)
           => /\ live[v] = Undefined
              /\ \/ last.status = 204 /\ tomb[v] # Undefined
                 \/ last.status = 404

\* C2 as stated: for every string value, GET answers 200 with the created
\* entry from its 201 until its deletion, DELETE then answers 204, and GET and
\* DELETE answer 404 from then until it is created again
C2_LifecycleEveryValue == \A v \in AllValues : LifecycleOf(v)

\* the path /strings/<v> reaches the by-value handlers: v is not empty and is
\* not, in any letter case, the literal segment of the natural-language route
Addressable(v) == v # <<>> /\ ~FoldEq(v, L_fbnl)

\* C2 amended: the lifecycle holds for every value that is addressable by path
C2_LifecycleAddressable ==
    \A v \in AllValues : Addressable(v) => LifecycleOf(v)

C2_Witness ==
    /\ last.req = Get(Madam)
    /\ last.status = 404
    /\ tomb[Madam] # Undefined

\* C3: a GET of /strings/filter-by-natural-language is always handled by the
\* natural-language filter handler
C3_RoutePrecedence ==
    last.req.method = "GET" /\ last.req.path = <<L_strings, L_fbnl>>
        => last.handler = "filterByNaturalLanguage"

\* C4: the natural-language endpoint never answers 200 for a query whose
\* parsed min_length and max_length are both set with min_length > max_length
C4_UnsatisfiableRange ==
    last.handler = "filterByNaturalLanguage" /\ last.status = 200 =>
        LET f == last.body.interpreted_query.parsed_filters
        IN  ~(/\ f.min_length # Undefined
              /\ f.max_length # Undefined
              /\ f.min_length.n > f.max_length.n)

\* C5: the query "contains letter c" is parsed to the predicate set holding
\* contains_character = c and nothing else
C5_ContainsLetter ==
    \A c \in LetterChars :
        last.handler = "filterByNaturalLanguage" /\ last.req = NL(Str(LetterQuery(c))) =>
            /\ last.status = 200
            /\ last.body.interpreted_query.parsed_filters
                   = [NoFilters EXCEPT !.contains_character = Str(<<c>>)]

\* the number a text of decimal digits denotes
IsDigits(s) == s # <<>> /\ \A i \in 1..Len(s) : IsDigit(s[i])
Denotes(s) == CHOOSE n \in 0..99 : IntToText(n) = s

\* a list query all of whose supplied parameters are valid
ValidQuery(q) ==
    /\ q.is_palindrome # Undefined => q.is_palindrome.s \in {L_true, L_false}
    /\ \A f \in {"min_length", "max_length", "word_count"} :
           q[f] # Undefined => IsDigits(q[f].s)
    /\ q.contains_character # Undefined
           => Len(q.contains_character.s) = 1 /\ Utf16Len(q.contains_character.s) = 1

\* entry e satisfies every predicate query q supplies
Satisfies(e, q) ==
    /\ q.is_palindrome # Undefined
           => e.properties.is_palindrome = (q.is_palindrome.s = L_true)
    /\ q.min_length # Undefined => e.properties.length >= Denotes(q.min_length.s)
    /\ q.max_length # Undefined => e.properties.length <= Denotes(q.max_length.s)
    /\ q.word_count # Undefined => e.properties.word_count = Denotes(q.word_count.s)
    /\ q.contains_character # Undefined
           => q.contains_character.s[1] \in DOMAIN e.properties.character_frequency_map

FieldMessage(f) ==
    CASE f = "is_palindrome" -> "is_palindrome must be \"true\" or \"false\""
      [] f = "min_length" -> "min_length must be a positive integer"
      [] f = "max_length" -> "max_length must be a positive integer"
      [] f = "word_count" -> "word_count must be a positive integer"
      [] f = "contains_character" -> "contains_character must be a single character string"

\* the supplied parameters of q that are not valid
InvalidFields(q) ==
    {f \in {"min_length", "max_length", "word_count"} :
         q[f] # Undefined /\ ~IsDigits(q[f].s)}
      \cup (IF q.is_palindrome # Undefined /\ q.is_palindrome.s \notin {L_true, L_false}
            THEN {"is_palindrome"} ELSE {})
      \cup (IF q.contains_character # Undefined /\ Len(q.contains_character.s) # 1
            THEN {"contains_character"} ELSE {})

\* C7: GET /strings with an invalid parameter (a number with trailing text or
\* a fraction included) answers 400 with a message naming an invalid field
C7_QueryValidation ==
    \A q \in ListQueries :
        last.req = List(q) /\ InvalidFields(q) # {} =>
            /\ last.status = 400
            /\ \E f \in InvalidFields(q) :
                   last.body.error = <<"Invalid query parameter: ", FieldMessage(f)>>

\* C8: of two identical POSTs of a string value that were in flight together
\* and are handled one after the other, the first is created (201) if no entry
\* for the value was stored, and the second meets the conflict (409)
C8_AtomicCreate ==
    last.raced /\ last.req.method = "POST" /\ last.req.about.type = "string" =>
        /\ last.status = 409
        /\ last.firstStatus = (IF last.firstAbsent THEN 201 ELSE 409)

C8_Witness ==
    /\ last.raced
    /\ last.req = Post(Str(Madam))
    /\ last.firstAbsent
    /\ last.firstStatus = 201
    /\ last.status = 409

\* C9: a request answered 400, 404, 409 or 422, and every GET, leaves the
\* store as it was
C9_StoreUnchanged ==
    last.status \in {400, 404, 409, 422} \/ last.req.method = "GET"
        => dataStore = last.before

C9_Witness ==
    /\ last.status = 409
    /\ last.at > 0
    /\ Len(dataStore) >= 1

\* v was deleted and the request handled last is a POST of v that found no
\* entry for it
Recreation(v) ==
    /\ last.req = Post(Str(v))
    /\ tomb[v] # Undefined
    /\ ~HasId(last.before, IdOf(v))

\* C10 as stated: creating a deleted value again succeeds with the id of the
\* deleted entry and a created_at different from the deleted entry's
C10_RecreateFreshTimestamp ==
    \A v \in AllValues :
        Recreation(v) =>
            /\ last.status = 201
            /\ last.body.id = tomb[v].id
            /\ last.body.created_at # tomb[v].created_at

\* C10 amended: creating a deleted value again succeeds with the id of the
\* deleted entry and the created_at read from the clock at the re-creation
C10_RecreateClockTimestamp ==
    \A v \in AllValues :
        Recreation(v) =>
            /\ last.status = 201
            /\ last.body.id = tomb[v].id
            /\ last.body.created_at = toISOString(last.at)

C10_Witness ==
    /\ Recreation(Madam)
    /\ last.status = 201
    /\ last.body.created_at # tomb[Madam].created_at

\* the value analyzeString was called with, and what it returned
Analyzed == last.handler = "analyzeString"

\* s lowercased, with every character outside [a-z0-9] removed, built one
\* character at a time
RECURSIVE LoweredAlnum(_)
LoweredAlnum(s) ==
    IF s = <<>> THEN <<>>
    ELSE SelectSeq(LowerChar(Head(s)), IsLowerAlnum) \o LoweredAlnum(Tail(s))

\* n reads the same forwards and backwards
Mirrored(n) == \A i \in 1..Len(n) : n[i] = n[Len(n) + 1 - i]

\* C11: is_palindrome is true exactly when the value, lowercased and with
\* every character outside [a-z0-9] removed, reads the same forwards and
\* backwards; it is true when nothing is left after the removal
C11_PalindromeDetection ==
    Analyzed =>
        /\ last.body.properties.is_palindrome = Mirrored(LoweredAlnum(last.body.value))
        /\ LoweredAlnum(last.body.value) = <<>> => last.body.properties.is_palindrome

\* the mixed-case, punctuated value "A,a" was analyzed and found a palindrome
C11_Witness ==
    /\ Analyzed
    /\ last.body.value = <<65, 44, 97>>
    /\ last.body.properties.is_palindrome

\* the sum of the occurrence counts of a frequency map
RECURSIVE SumCounts(_)
SumCounts(map) ==
    IF DOMAIN map = {} THEN 0
    ELSE LET k == CHOOSE x \in DOMAIN map : TRUE
         IN  map[k] + SumCounts([x \in DOMAIN map \ {k} |-> map[x]])

\* C12: for every analyzed value, length is the sum of the occurrence counts
\* of character_frequency_map, and unique_characters is the number of keys of
\* that map
C12_ConsistentGranularity ==
    Analyzed =>
        /\ last.body.properties.length
             = SumCounts(last.body.properties.character_frequency_map)
        /\ last.body.properties.unique_characters
             = Cardinality(DOMAIN last.body.properties.character_frequency_map)

=============================================================================
